---- MODULE Spec2Model ----
(***************************************************************************)
(* Settlement-ETA gap filler (run/003_generate_missing_bins_improved.py)   *)
(* and amount bucketing (tests/lookup_settlement_times.py).                *)
(*                                                                         *)
(* Numbers are exact rationals [num, den] in lowest terms (den > 0).       *)
(* round(x, 2) yields the nearest multiple of 0.01; when the exact value   *)
(* lies halfway between two of them the binary float lies on either side,  *)
(* so the direction of such a tie is an input of the rounding.             *)
(* Python objects that can be aliased (the per-route dicts of bins) live   *)
(* in a heap; a dataset maps each route to a reference into that heap.     *)
(***************************************************************************)
EXTENDS Integers, Sequences, FiniteSets, TLC

\* ---------------------------------------------------------------- bounds
MaxRoutes == 2
MaxLevel == 2
MaxPasses == 2
MaxAmountK == 60

\* ------------------------------------------------------- exact arithmetic
Abs(x) == IF x < 0 THEN -x ELSE x

RECURSIVE GCD(_, _)
GCD(a, b) == IF b = 0 THEN a ELSE GCD(b, a % b)

Rat(n, d) ==
    LET g == GCD(Abs(n), d)
    IN  [num |-> n \div g, den |-> d \div g]

RInt(k) == [num |-> k, den |-> 1]
RAdd(x, y) == Rat(x.num * y.den + y.num * x.den, x.den * y.den)
RMul(x, y) == Rat(x.num * y.num, x.den * y.den)
RDiv(x, y) == Rat(x.num * y.den, x.den * y.num)

\* round(x, 2); up tells which way an exact tie goes
round2(x, up) ==
    LET s == x.num * 100
        q == s \div x.den
        r == s % x.den
        k == IF 2 * r > x.den THEN q + 1
             ELSE IF 2 * r < x.den THEN q
             ELSE IF up THEN q + 1 ELSE q
    IN  Rat(k, 100)

\* the directions of the ties of the three roundings of one bin
TieChoices == [p25 : BOOLEAN, p50 : BOOLEAN, p75 : BOOLEAN]

RECURSIVE RSum(_)
RSum(s) == IF s = <<>> THEN RInt(0) ELSE RAdd(Head(s), RSum(Tail(s)))

\* statistics.mean
mean(s) == RDiv(RSum(s), RInt(Len(s)))

\* --------------------------------------------------------- bucket catalog
EXPECTED_BINS ==
    << "0-50000", "50000-100000", "100000-300000", "300000-400000",
       "400000-500000", "500000-700000", "700000-1000000", "1000000+" >>

ExpectedBinSet == {EXPECTED_BINS[k] : k \in 1..Len(EXPECTED_BINS)}

\* list.index, 0-based; -1 when the name is not canonical
get_bin_index(bin_name) ==
    IF bin_name \in ExpectedBinSet
    THEN (CHOOSE k \in 1..Len(EXPECTED_BINS) : EXPECTED_BINS[k] = bin_name) - 1
    ELSE -1

\* ---------------------------------------------------------------- routes
RouteKeys ==
    << <<"1", "10", "0xa">>, <<"1", "42161", "0xa">>,
       <<"10", "1", "0xb">>, <<"56", "1", "0xa">> >>

NumRoutes == IF MaxRoutes < Len(RouteKeys) THEN MaxRoutes ELSE Len(RouteKeys)
Routes == {RouteKeys[k] : k \in 1..NumRoutes}

\* the routes of a dataset in dict iteration order
RoutesInOrder(d) ==
    SelectSeq(SubSeq(RouteKeys, 1, NumRoutes), LAMBDA r : r \in DOMAIN d)

\* ------------------------------------------------------------ input bins
RealBin(p50) ==
    [p25 |-> RMul(p50, Rat(4, 5)), p50 |-> p50, p75 |-> RMul(p50, Rat(3, 2)),
     sample_size |-> 3]

\* a bin written by an earlier run of this generator
GeneratedBin(p50, method) ==
    [p25 |-> RMul(p50, Rat(7, 10)), p50 |-> p50, p75 |-> RMul(p50, Rat(13, 10)),
     sample_size |-> 0, generated |-> TRUE, method |-> method]

\* a bin written by archive/generate_missing_bins.py: generated, no method
LegacyBin(p50) ==
    [p25 |-> RMul(p50, Rat(7, 10)), p50 |-> p50, p75 |-> RMul(p50, Rat(13, 10)),
     sample_size |-> 0, generated |-> TRUE]

InputP50(level, bin_name) ==
    LET k == get_bin_index(bin_name)
    IN  Rat(level * (IF k = -1 THEN 70 ELSE 10 + 3 * k), 1)

\* a p50 whose multiples need rounding to 2 decimals
FractionalP50 == Rat(1002, 100)

RealShapes ==
    { {}, {"0-50000"}, {"50000-100000"}, {"other"},
      {"0-50000", "500000-700000"}, {"300000-400000", "1000000+"},
      ExpectedBinSet }

\* the shapes that also occur with larger values
LevelShapes == { {"0-50000"}, {"50000-100000"}, {"300000-400000", "1000000+"} }

InputRouteBins ==
    {[b \in S |-> RealBin(InputP50(1, b))] : S \in RealShapes}
    \cup {[b \in S |-> RealBin(InputP50(l, b))] :
            S \in LevelShapes, l \in 2..MaxLevel}
    \cup {[b \in {"0-50000", "100000-300000"} |->
             GeneratedBin(InputP50(1, b), "weighted_interpolation")]}
    \cup {[b \in {"1000000+"} |-> LegacyBin(InputP50(1, b))]}
    \cup {[b \in {"0-50000"} |-> RealBin(FractionalP50)]}

\* ----------------------------------------------------------------- state
VARIABLES
    heap,                 \* reference -> dict of bins (bin name -> bin)
    data,                 \* the input dataset: route -> reference
    missing_combinations, \* result of find_missing_bins
    populated_data,       \* the copy being filled: route -> reference
    bin_stats,            \* global statistics of the run
    existing_bins,        \* keys of the current route before its fill
    i, j,                 \* loop positions: combination, missing bin
    pass,                 \* number of the gap-fill run
    pc,
    failure,              \* the exception that ended the run, or "none"
    usd_amount,           \* argument of find_amount_bucket, in cents
    amount_bucket,        \* its result
    query,                \* the arguments of a lookup entry point
    result                \* what the entry point returned

vars == << heap, data, missing_combinations, populated_data, bin_stats,
           existing_bins, i, j, pass, pc, failure, usd_amount, amount_bucket,
           query, result >>

gapVars_nopc == << heap, data, missing_combinations, populated_data,
                   bin_stats, existing_bins, i, j, pass, failure >>

lookupVars == << usd_amount, amount_bucket, query, result >>

\* the value of a dataset: route -> bin name -> bin
Deref(h, d) == [r \in DOMAIN d |-> h[d[r]]]

\* a dataset (value) placed in fresh objects
Load(v) ==
    LET rs == RoutesInOrder(v)
    IN  [heap |-> [k \in 1..Len(rs) |-> v[rs[k]]],
         refs |-> [r \in DOMAIN v |->
                    CHOOSE k \in 1..Len(rs) : rs[k] = r]]

\* -------------------------------------------------------- find_missing_bins
\* variant: every expected bin is reported, present or not
MissingBinsOf_all(bins) == EXPECTED_BINS

\* variant: the missing bins are listed from the last bucket to the first
MissingBinsOf_descending(bins) ==
    SelectSeq([k \in 1..Len(EXPECTED_BINS) |->
                 EXPECTED_BINS[Len(EXPECTED_BINS) + 1 - k]],
              LAMBDA bin_name : bin_name \notin DOMAIN bins)

MissingBinsOf(bins) ==
    SelectSeq(EXPECTED_BINS, LAMBDA bin_name : bin_name \notin DOMAIN bins)

\* variant: a route with no bins at all is skipped
find_missing_bins_nonempty(v) ==
    LET rs == SelectSeq(RoutesInOrder(v),
                        LAMBDA r : DOMAIN v[r] # {} /\ MissingBinsOf(v[r]) # <<>>)
    IN  [k \in 1..Len(rs) |-> [route |-> rs[k],
                               missing_bins |-> MissingBinsOf(v[rs[k]])]]

find_missing_bins(v) ==
    LET rs == SelectSeq(RoutesInOrder(v),
                        LAMBDA r : MissingBinsOf(v[r]) # <<>>)
    IN  [k \in 1..Len(rs) |-> [route |-> rs[k],
                               missing_bins |-> MissingBinsOf(v[rs[k]])]]

\* --------------------------------------------------- collect_bin_statistics
RECURSIVE MetricList(_, _, _, _)
MetricList(v, rs, bin_name, metric) ==
    IF rs = <<>> THEN <<>>
    ELSE (IF bin_name \in DOMAIN v[Head(rs)]
          THEN << v[Head(rs)][bin_name][metric] >> ELSE <<>>)
         \o MetricList(v, Tail(rs), bin_name, metric)

\* variant: the values of generated bins are left out
collect_bin_statistics_real_only(v) ==
    LET w == [r \in DOMAIN v |->
                [b \in {n \in DOMAIN v[r] : "generated" \notin DOMAIN v[r][n]}
                   |-> v[r][b]]]
        found == {b \in ExpectedBinSet : \E r \in DOMAIN w : b \in DOMAIN w[r]}
        rs == RoutesInOrder(w)
    IN  [b \in found |-> [p25 |-> MetricList(w, rs, b, "p25"),
                          p50 |-> MetricList(w, rs, b, "p50"),
                          p75 |-> MetricList(w, rs, b, "p75")]]

collect_bin_statistics(v) ==
    LET found == {b \in ExpectedBinSet : \E r \in DOMAIN v : b \in DOMAIN v[r]}
        rs == RoutesInOrder(v)
    IN  [b \in found |-> [p25 |-> MetricList(v, rs, b, "p25"),
                          p50 |-> MetricList(v, rs, b, "p50"),
                          p75 |-> MetricList(v, rs, b, "p75")]]

\* ------------------------------------------------------ interpolate_bin_data
\* variant: the multiplier grows by 0.5 per bucket
base_multiplier_linear(target_bin) ==
    IF get_bin_index(target_bin) <= 0 THEN Rat(1, 1)
    ELSE Rat(2 + get_bin_index(target_bin), 2)

base_multiplier(target_bin) ==
    CASE target_bin = "50000-100000" -> Rat(12, 10)
      [] target_bin = "100000-300000" -> Rat(15, 10)
      [] target_bin = "300000-400000" -> Rat(18, 10)
      [] target_bin = "400000-500000" -> Rat(2, 1)
      [] target_bin = "500000-700000" -> Rat(25, 10)
      [] target_bin = "700000-1000000" -> Rat(3, 1)
      [] target_bin = "1000000+" -> Rat(4, 1)
      [] OTHER -> Rat(1, 1)

baseline_bin == "0-50000"

\* variant: the factors of p25 and p75 are exchanged
ScaledBin_exchanged(baseline_p50, target_bin, method, ties) ==
    LET estimated_p50 == RMul(baseline_p50, base_multiplier(target_bin))
        estimated_p25 == RMul(estimated_p50, Rat(13, 10))
        estimated_p75 == RMul(estimated_p50, Rat(7, 10))
    IN  [p25 |-> round2(estimated_p25, ties.p25),
         p50 |-> round2(estimated_p50, ties.p50),
         p75 |-> round2(estimated_p75, ties.p75), sample_size |-> 0,
         generated |-> TRUE, method |-> method]

ScaledBin(baseline_p50, target_bin, method, ties) ==
    LET estimated_p50 == RMul(baseline_p50, base_multiplier(target_bin))
        estimated_p25 == RMul(estimated_p50, Rat(7, 10))
        estimated_p75 == RMul(estimated_p50, Rat(13, 10))
    IN  [p25 |-> round2(estimated_p25, ties.p25),
         p50 |-> round2(estimated_p50, ties.p50),
         p75 |-> round2(estimated_p75, ties.p75), sample_size |-> 0,
         generated |-> TRUE, method |-> method]

\* the existing bins that contribute to the weighted interpolation
Contributing(stats, existing) ==
    SelectSeq(EXPECTED_BINS,
              LAMBDA bin_name : /\ bin_name \in existing
                                /\ bin_name \in DOMAIN stats
                                /\ stats[bin_name].p25 # <<>>
                                /\ get_bin_index(bin_name) # -1)

\* variant: every contributing bin has weight 1
surrounding_data_unweighted(stats, target_bin, existing) ==
    LET cs == Contributing(stats, existing)
    IN  [k \in 1..Len(cs) |->
           [weight |-> Rat(1, 1),
            p25 |-> mean(stats[cs[k]].p25),
            p50 |-> mean(stats[cs[k]].p50),
            p75 |-> mean(stats[cs[k]].p75)]]

surrounding_data(stats, target_bin, existing) ==
    LET cs == Contributing(stats, existing)
        target_index == get_bin_index(target_bin)
    IN  [k \in 1..Len(cs) |->
           [weight |-> Rat(1, Abs(get_bin_index(cs[k]) - target_index) + 1),
            p25 |-> mean(stats[cs[k]].p25),
            p50 |-> mean(stats[cs[k]].p50),
            p75 |-> mean(stats[cs[k]].p75)]]

Weighted(sd, metric) ==
    RDiv(RSum([k \in 1..Len(sd) |-> RMul(sd[k].weight, sd[k][metric])]),
         RSum([k \in 1..Len(sd) |-> sd[k].weight]))

\* variant: the fallback bin carries no method
default_fallback_legacy ==
    [p25 |-> Rat(10, 1), p50 |-> Rat(15, 1), p75 |-> Rat(25, 1),
     sample_size |-> 0, generated |-> TRUE]

default_fallback ==
    [p25 |-> Rat(10, 1), p50 |-> Rat(15, 1), p75 |-> Rat(25, 1),
     sample_size |-> 0, generated |-> TRUE, method |-> "default_fallback"]

\* variant: the global baseline is tried before the route's own baseline
interpolate_bin_data_swapped(stats, target_bin, existing, route_data, ties) ==
    LET sd == surrounding_data(stats, target_bin, existing)
    IN  IF baseline_bin \in DOMAIN stats /\ stats[baseline_bin].p50 # <<>>
        THEN ScaledBin(mean(stats[baseline_bin].p50), target_bin,
                       "baseline_scaling_global", ties)
        ELSE IF DOMAIN route_data # {} /\ baseline_bin \in DOMAIN route_data
        THEN ScaledBin(route_data[baseline_bin].p50, target_bin,
                       "baseline_scaling", ties)
        ELSE IF sd # <<>>
        THEN [p25 |-> round2(Weighted(sd, "p25"), ties.p25),
              p50 |-> round2(Weighted(sd, "p50"), ties.p50),
              p75 |-> round2(Weighted(sd, "p75"), ties.p75),
              sample_size |-> 0, generated |-> TRUE,
              method |-> "weighted_interpolation"]
        ELSE IF target_bin \in DOMAIN stats /\ stats[target_bin].p25 # <<>>
        THEN [p25 |-> mean(stats[target_bin].p25),
              p50 |-> mean(stats[target_bin].p50),
              p75 |-> mean(stats[target_bin].p75),
              sample_size |-> 0, generated |-> TRUE,
              method |-> "cross_combination_average"]
        ELSE default_fallback

interpolate_bin_data(stats, target_bin, existing, route_data, ties) ==
    LET sd == surrounding_data(stats, target_bin, existing)
    IN  IF DOMAIN route_data # {} /\ baseline_bin \in DOMAIN route_data
        THEN ScaledBin(route_data[baseline_bin].p50, target_bin,
                       "baseline_scaling", ties)
        ELSE IF baseline_bin \in DOMAIN stats /\ stats[baseline_bin].p50 # <<>>
        THEN ScaledBin(mean(stats[baseline_bin].p50), target_bin,
                       "baseline_scaling_global", ties)
        ELSE IF sd # <<>>
        THEN [p25 |-> round2(Weighted(sd, "p25"), ties.p25),
              p50 |-> round2(Weighted(sd, "p50"), ties.p50),
              p75 |-> round2(Weighted(sd, "p75"), ties.p75),
              sample_size |-> 0, generated |-> TRUE,
              method |-> "weighted_interpolation"]
        ELSE IF target_bin \in DOMAIN stats /\ stats[target_bin].p25 # <<>>
        THEN [p25 |-> mean(stats[target_bin].p25),
              p50 |-> mean(stats[target_bin].p50),
              p75 |-> mean(stats[target_bin].p75),
              sample_size |-> 0, generated |-> TRUE,
              method |-> "cross_combination_average"]
        ELSE default_fallback

\* a stored statistic that is not a number (a JSON string or null)
NonNumeric == [num |-> 0, den |-> 0]
IsNumber(x) == x.den # 0
AllNumbers(s) == \A k \in 1..Len(s) : IsNumber(s[k])

\* interpolate_bin_data raises TypeError: the strategy that applies
\* multiplies, or takes the mean of, a value that is not a number
Raises(stats, target_bin, existing, route_data) ==
    LET cs == Contributing(stats, existing)
    IN  IF DOMAIN route_data # {} /\ baseline_bin \in DOMAIN route_data
        THEN ~IsNumber(route_data[baseline_bin].p50)
        ELSE IF baseline_bin \in DOMAIN stats /\ stats[baseline_bin].p50 # <<>>
        THEN ~AllNumbers(stats[baseline_bin].p50)
        ELSE IF cs # <<>>
        THEN \E k \in 1..Len(cs) :
                ~(/\ AllNumbers(stats[cs[k]].p25)
                  /\ AllNumbers(stats[cs[k]].p50)
                  /\ AllNumbers(stats[cs[k]].p75))
        ELSE IF target_bin \in DOMAIN stats /\ stats[target_bin].p25 # <<>>
        THEN ~(/\ AllNumbers(stats[target_bin].p25)
               /\ AllNumbers(stats[target_bin].p50)
               /\ AllNumbers(stats[target_bin].p75))
        ELSE FALSE

\* ------------------------------------------------------ populate_missing_bins
\* json.loads(json.dumps(data)): every dict is serialised to text and parsed
\* back into a fresh object; keys are strings, numbers and booleans keep
\* their value
\* variant: the copy keeps only the four statistic fields of a bin
JsonValue_stats_only(bins) ==
    [b \in DOMAIN bins |->
       [f \in DOMAIN bins[b] \cap {"p25", "p50", "p75", "sample_size"} |->
          bins[b][f]]]

JsonValue(bins) == [b \in DOMAIN bins |-> [f \in DOMAIN bins[b] |-> bins[b][f]]]

\* variant: the copy is the input itself (no new objects)
json_loads_dumps_alias(h, d) == [heap |-> h, refs |-> d]

json_loads_dumps(h, d) ==
    LET rs == RoutesInOrder(d)
    IN  [heap |-> h \o [k \in 1..Len(rs) |-> JsonValue(h[d[rs[k]]])],
         refs |-> [r \in DOMAIN d |->
                    Len(h) + (CHOOSE k \in 1..Len(rs) : rs[k] = r)]]

Init ==
    /\ \E present \in SUBSET Routes :
         \E v \in [present -> InputRouteBins] :
           LET ld == Load(v)
           IN  heap = ld.heap /\ data = ld.refs
    /\ missing_combinations = <<>>
    /\ populated_data = << >>
    /\ bin_stats = << >>
    /\ existing_bins = {}
    /\ i = 0 /\ j = 0
    /\ pass = 1
    /\ pc = "find"
    /\ failure = "none"
    /\ usd_amount = 0
    /\ amount_bucket = "none"
    /\ query = << >>
    /\ result = "none"

\* main: missing_combinations = find_missing_bins(data)
FindMissingBins ==
    /\ pc = "find"
    /\ missing_combinations' = find_missing_bins(Deref(heap, data))
    /\ pc' = "populate"
    /\ UNCHANGED << heap, data, populated_data, bin_stats, existing_bins, i, j,
                    pass, failure, lookupVars >>

\* populate_missing_bins: the deep copy and the statistics
PopulateBegin ==
    /\ pc = "populate"
    /\ LET cp == json_loads_dumps(heap, data)
       IN  heap' = cp.heap /\ populated_data' = cp.refs
    /\ bin_stats' = collect_bin_statistics(Deref(heap, data))
    /\ i' = 1 /\ j' = 0
    /\ pc' = "route"
    /\ UNCHANGED << data, missing_combinations, existing_bins, pass,
                    failure, lookupVars >>

\* the outer loop takes the next combination and lists its keys
RouteBegin ==
    /\ pc = "route"
    /\ i <= Len(missing_combinations)
    /\ existing_bins' =
         DOMAIN heap[populated_data[missing_combinations[i].route]]
    /\ j' = 1
    /\ pc' = "bin"
    /\ UNCHANGED << heap, data, missing_combinations, populated_data,
                    bin_stats, i, pass, failure, lookupVars >>

\* variant: the statistics are collected again after every stored bin
FillBin_refreshing ==
    /\ pc = "bin"
    /\ j <= Len(missing_combinations[i].missing_bins)
    /\ ~Raises(bin_stats, missing_combinations[i].missing_bins[j],
               existing_bins,
               heap[populated_data[missing_combinations[i].route]])
    /\ LET ref == populated_data[missing_combinations[i].route]
           bin_name == missing_combinations[i].missing_bins[j]
           route_data == heap[ref]
       IN  \E generated_data \in
                {interpolate_bin_data(bin_stats, bin_name, existing_bins,
                                      route_data, ties) : ties \in TieChoices} :
              heap' = [heap EXCEPT ![ref] = (bin_name :> generated_data) @@ @]
    /\ j' = j + 1
    /\ bin_stats' = collect_bin_statistics(Deref(heap', populated_data))
    /\ UNCHANGED << data, missing_combinations, populated_data,
                    existing_bins, i, pass, pc, failure, lookupVars >>

\* one iteration of the inner loop: generate and store one bin
FillBin ==
    /\ pc = "bin"
    /\ j <= Len(missing_combinations[i].missing_bins)
    /\ ~Raises(bin_stats, missing_combinations[i].missing_bins[j],
               existing_bins,
               heap[populated_data[missing_combinations[i].route]])
    /\ LET ref == populated_data[missing_combinations[i].route]
           bin_name == missing_combinations[i].missing_bins[j]
           route_data == heap[ref]
       IN  \E generated_data \in
                {interpolate_bin_data(bin_stats, bin_name, existing_bins,
                                      route_data, ties) : ties \in TieChoices} :
              heap' = [heap EXCEPT ![ref] = (bin_name :> generated_data) @@ @]
    /\ j' = j + 1
    /\ UNCHANGED << data, missing_combinations, populated_data, bin_stats,
                    existing_bins, i, pass, pc, failure, lookupVars >>

\* interpolate_bin_data raises; main catches the exception, reports an
\* unexpected error and saves nothing
FillBinRaises ==
    /\ pc = "bin"
    /\ j <= Len(missing_combinations[i].missing_bins)
    /\ Raises(bin_stats, missing_combinations[i].missing_bins[j],
              existing_bins,
              heap[populated_data[missing_combinations[i].route]])
    /\ failure' = "TypeError"
    /\ pc' = "failed"
    /\ UNCHANGED << heap, data, missing_combinations, populated_data,
                    bin_stats, existing_bins, i, j, pass, lookupVars >>

\* the inner loop is exhausted
RouteEnd ==
    /\ pc = "bin"
    /\ j > Len(missing_combinations[i].missing_bins)
    /\ i' = i + 1
    /\ pc' = "route"
    /\ UNCHANGED << heap, data, missing_combinations, populated_data,
                    bin_stats, existing_bins, j, pass, failure,
                    lookupVars >>

\* return populated_data
PopulateReturn ==
    /\ pc = "route"
    /\ i > Len(missing_combinations)
    /\ pc' = "done"
    /\ UNCHANGED << heap, data, missing_combinations, populated_data,
                    bin_stats, existing_bins, i, j, pass, failure,
                    lookupVars >>

\* the saved output is loaded as the input of a later run
RunAgain ==
    /\ pc = "done"
    /\ pass < MaxPasses
    /\ LET ld == Load(Deref(heap, populated_data))
       IN  heap' = ld.heap /\ data' = ld.refs
    /\ missing_combinations' = <<>>
    /\ populated_data' = << >>
    /\ bin_stats' = << >>
    /\ existing_bins' = {}
    /\ i' = 0 /\ j' = 0
    /\ pass' = pass + 1
    /\ pc' = "find"
    /\ UNCHANGED << failure, lookupVars >>

Next ==
    \/ FindMissingBins
    \/ PopulateBegin
    \/ RouteBegin
    \/ FillBin
    \/ RouteEnd
    \/ PopulateReturn
    \/ RunAgain

Spec == Init /\ [][Next]_vars

\* the dataset values
Input == Deref(heap, data)
Output == Deref(heap, populated_data)

\* ------------------------------------------ interpolate_bin_data, one call
\* interpolate_bin_data called for one missing bucket of one route, with the
\* statistics of the dataset and the route's bins as they are stored
InterpolateInit ==
    /\ \E present \in SUBSET Routes :
         \E v \in [present -> InputRouteBins] :
           LET ld == Load(v)
           IN  heap = ld.heap /\ data = ld.refs
    /\ missing_combinations = <<>>
    /\ populated_data = << >>
    /\ bin_stats = << >>
    /\ existing_bins = {}
    /\ i = 0 /\ j = 0
    /\ pass = 1
    /\ pc = "call"
    /\ failure = "none"
    /\ usd_amount = 0
    /\ amount_bucket = "none"
    /\ query = << >>
    /\ result = "none"

Interpolate ==
    /\ pc = "call"
    /\ \E r \in DOMAIN data :
         \E target_bin \in ExpectedBinSet \ DOMAIN heap[data[r]] :
           \E ties \in TieChoices :
              /\ bin_stats' = collect_bin_statistics(Deref(heap, data))
              /\ existing_bins' = DOMAIN heap[data[r]]
              /\ query' = [route |-> r, target_bin |-> target_bin]
              /\ result' = interpolate_bin_data(bin_stats', target_bin,
                                                existing_bins', heap[data[r]],
                                                ties)
    /\ pc' = "interpolated"
    /\ UNCHANGED << heap, data, missing_combinations, populated_data, i, j,
                    pass, failure, usd_amount, amount_bucket >>

InterpolateNext ==
    \/ Interpolate

InterpolateSpec == InterpolateInit /\ [][InterpolateNext]_vars

\* ------------------------------------------------- runs on malformed input
\* a real bin whose field f holds a value that is not a number
MalformedBin(p50, f) == [RealBin(p50) EXCEPT ![f] = NonNumeric]

MalformedRouteBins ==
    { [b \in {"0-50000"} |-> MalformedBin(InputP50(1, b), "p50")],
      [b \in {"0-50000"} |-> MalformedBin(InputP50(1, b), "p25")],
      [b \in {"300000-400000"} |-> MalformedBin(InputP50(1, b), "p50")],
      [b \in {"1000000+"} |-> MalformedBin(InputP50(1, b), "p75")],
      [b \in ExpectedBinSet |->
         IF b = "400000-500000" THEN MalformedBin(InputP50(1, b), "p50")
         ELSE RealBin(InputP50(1, b))] }

WellFormedRouteBins ==
    {[b \in S |-> RealBin(InputP50(1, b))] :
        S \in { {}, {"0-50000"}, {"50000-100000"} }}

MalformedInit ==
    /\ \E present \in SUBSET Routes :
         \E v \in [present -> MalformedRouteBins \cup WellFormedRouteBins] :
           /\ \E r \in present : v[r] \in MalformedRouteBins
           /\ LET ld == Load(v)
              IN  heap = ld.heap /\ data = ld.refs
    /\ missing_combinations = <<>>
    /\ populated_data = << >>
    /\ bin_stats = << >>
    /\ existing_bins = {}
    /\ i = 0 /\ j = 0
    /\ pass = 1
    /\ pc = "find"
    /\ failure = "none"
    /\ usd_amount = 0
    /\ amount_bucket = "none"
    /\ query = << >>
    /\ result = "none"

MalformedNext ==
    \/ FindMissingBins
    \/ PopulateBegin
    \/ RouteBegin
    \/ FillBin
    \/ FillBinRaises
    \/ RouteEnd
    \/ PopulateReturn
    \/ RunAgain

MalformedSpec == MalformedInit /\ [][MalformedNext]_vars

\* ---------------------------------------------------------------- text
\* a text is a sequence of one-character strings; Str joins it into a key
LowerLetters == <<"a", "b", "c", "d", "e", "f", "g", "h", "i", "j", "k", "l", "m", "n", "o", "p", "q", "r", "s", "t", "u", "v", "w", "x", "y", "z">>
UpperLetters == <<"A", "B", "C", "D", "E", "F", "G", "H", "I", "J", "K", "L", "M", "N", "O", "P", "Q", "R", "S", "T", "U", "V", "W", "X", "Y", "Z">>
Digits == <<"0", "1", "2", "3", "4", "5", "6", "7", "8", "9">>

InSeq(c, s) == \E k \in 1..Len(s) : s[k] = c
IndexIn(c, s) == CHOOSE k \in 1..Len(s) : s[k] = c
IsSpace(c) == c = " "

\* str.upper, str.lower
upper(t) ==
    [k \in 1..Len(t) |->
       IF InSeq(t[k], LowerLetters) THEN UpperLetters[IndexIn(t[k], LowerLetters)]
       ELSE t[k]]

lower(t) ==
    [k \in 1..Len(t) |->
       IF InSeq(t[k], UpperLetters) THEN LowerLetters[IndexIn(t[k], UpperLetters)]
       ELSE t[k]]

RECURSIVE Str(_)
Str(t) == IF t = <<>> THEN "" ELSE Head(t) \o Str(Tail(t))

\* str.strip
RECURSIVE lstrip(_)
lstrip(t) == IF t # <<>> /\ IsSpace(Head(t)) THEN lstrip(Tail(t)) ELSE t

RECURSIVE rstrip(_)
rstrip(t) ==
    IF t # <<>> /\ IsSpace(t[Len(t)]) THEN rstrip(SubSeq(t, 1, Len(t) - 1))
    ELSE t

strip(t) == rstrip(lstrip(t))

\* str.startswith
startswith(t, prefix) ==
    Len(t) >= Len(prefix) /\ SubSeq(t, 1, Len(prefix)) = prefix

Range(s) == {s[k] : k \in 1..Len(s)}
DigitChars == Range(Digits)
LetterChars == Range(LowerLetters) \cup Range(UpperLetters)
SpaceChars == {" "}

\* the length of the longest prefix of t made of characters of the class
RECURSIVE Run(_, _)
Run(t, class) ==
    IF t # <<>> /\ Head(t) \in class THEN 1 + Run(Tail(t), class) ELSE 0

Drop(t, n) == SubSeq(t, n + 1, Len(t))

\* int() of a run of digits
RECURSIVE DigitsValue(_)
DigitsValue(t) ==
    IF t = <<>> THEN 0
    ELSE 10 * DigitsValue(SubSeq(t, 1, Len(t) - 1))
         + (IndexIn(t[Len(t)], Digits) - 1)

RECURSIVE Pow10(_)
Pow10(n) == IF n = 0 THEN 1 ELSE 10 * Pow10(n - 1)

\* Python None, where a key, a text, a number or a count is expected
None == "<None>"
NoneText == <<None>>
NoneNumber == [num |-> 0, den |-> -1]
NoneCount == -1

\* truth value of a text or None, and of a float or None
TruthyText(t) == t # NoneText /\ t # <<>>
TruthyNumber(x) == x # NoneNumber /\ x.num # 0

\* ---------------------------------------------------------- parse_token_amount
\* re.match(r'^(\d+(?:\.\d+)?)\s+([A-Za-z]+)$', amount_string.strip());
\* returns (float(group 1), group 2 upper-cased) or (None, None)
parse_token_amount(amount_string) ==
    LET t == strip(amount_string)
        n1 == Run(t, DigitChars)
        t1 == Drop(t, n1)
        nf == IF t1 # <<>> /\ Head(t1) = "." THEN Run(Tail(t1), DigitChars) ELSE 0
        t2 == IF nf > 0 THEN Drop(t1, 1 + nf) ELSE t1
        ns == Run(t2, SpaceChars)
        t3 == Drop(t2, ns)
        nl == Run(t3, LetterChars)
    IN  IF n1 > 0 /\ ns > 0 /\ nl > 0 /\ nl = Len(t3)
        THEN [amount |-> Rat(DigitsValue(SubSeq(t, 1, n1)) * Pow10(nf)
                               + DigitsValue(SubSeq(t1, 2, 1 + nf)),
                             Pow10(nf)),
              asset_symbol |-> upper(t3)]
        ELSE [amount |-> NoneNumber, asset_symbol |-> NoneText]

\* ------------------------------------------------------------ convert_to_usd
get_token_prices ==
    [USDC |-> Rat(1, 1), USDT |-> Rat(1, 1), ETH |-> Rat(4250, 1),
     WETH |-> Rat(4250, 1), CLEAR |-> Rat(2029, 100000),
     cbBTC |-> Rat(11313151, 100), WBTC |-> Rat(11273447, 100),
     BNB |-> Rat(300, 1), POL |-> Rat(1, 2), AVAX |-> Rat(35, 1),
     BERA |-> Rat(1, 10), MNT |-> Rat(1, 2), SONIC |-> Rat(1, 100),
     INK |-> Rat(1, 1000), APE |-> Rat(3, 2), RON |-> Rat(1, 10),
     xPufETH |-> Rat(4250, 1)]

\* variant: a symbol without a price is worth nothing
convert_to_usd_unpriced_zero(amount, asset_symbol) ==
    LET prices == get_token_prices
    IN  IF Str(asset_symbol) \in DOMAIN prices
        THEN [usd |-> RMul(amount, prices[Str(asset_symbol)]), warned |-> FALSE]
        ELSE [usd |-> Rat(0, 1), warned |-> TRUE]

\* the USD value; warned tells that the unknown-price warning was printed
convert_to_usd(amount, asset_symbol) ==
    LET prices == get_token_prices
    IN  IF Str(asset_symbol) \in DOMAIN prices
        THEN [usd |-> RMul(amount, prices[Str(asset_symbol)]), warned |-> FALSE]
        ELSE [usd |-> amount, warned |-> TRUE]

\* a USD value in cents, rounded up: the bucket bounds are whole cents, so
\* x <= bound exactly when Cents(x) <= 100 * bound
Cents(x) == -((-(x.num * 100)) \div x.den)

\* ---------------------------------------------------- get_chain_id_from_name
chain_mapping ==
    [ethereum |-> "1", arbitrum |-> "42161", optimism |-> "10", base |-> "8453",
     polygon |-> "137", bnb |-> "56", avalanche_c |-> "43114",
     scroll |-> "534352", zksync |-> "324", linea |-> "59144",
     blast |-> "81457", taiko |-> "167000", mode |-> "34443",
     unichain |-> "130", zircuit |-> "48900", berachain |-> "80094",
     sonic |-> "146", ink |-> "57073", ronin |-> "2020",
     solana |-> "1399811149", tron |-> "728126428", apechain |-> "33139"]

\* chain_mapping.get(chain_name.lower(), chain_name)
get_chain_id_from_name(chain_name) ==
    IF Str(lower(chain_name)) \in DOMAIN chain_mapping
    THEN chain_mapping[Str(lower(chain_name))]
    ELSE Str(chain_name)

\* ------------------------------------------- get_ticker_hash_from_asset_name
\* the chain data files: the hub catalog and the chains' catalogs, each an
\* ordered list of symbol and ticker hash
Asset(symbol, tickerHash) == [symbol |-> symbol, tickerHash |-> tickerHash]

ChainDataFiles ==
    [chain_data |->
       [loaded |-> TRUE,
        hub |-> << Asset(<<"W", "E", "T", "H">>, "0xa"), Asset(<<"U", "S", "D", "C">>, "0xb") >>,
        chains |->
          << [id |-> "1",
              assets |-> << Asset(<<"w", "e", "t", "h">>, "0xc"), Asset(<<"D", "A", "I">>, "0xd") >>],
             [id |-> "10",
              assets |-> << Asset(<<"D", "a", "i">>, "0xb"), Asset(<<"d", "a", "i">>, "0xe"),
                            Asset(<<"O", "P">>, "0xa") >>] >>],
     no_hub |->
       [loaded |-> TRUE,
        hub |-> << >>,
        chains |->
          << [id |-> "1",
              assets |-> << Asset(<<"w", "e", "t", "h">>, "0xc") >>],
             [id |-> "10",
              assets |-> << Asset(<<"W", "E", "T", "H">>, "0xa") >>] >>]]

NoChainData == [loaded |-> FALSE, hub |-> << >>, chains |-> << >>]

load_chain_data(chain_data_path) ==
    IF chain_data_path \in DOMAIN ChainDataFiles
    THEN ChainDataFiles[chain_data_path]
    ELSE NoChainData

\* the ticker hash of the first entry of the catalog whose symbol equals the
\* name when both are upper-cased, or None
RECURSIVE FirstMatch(_, _)
FirstMatch(assets, asset_name) ==
    IF assets = << >> THEN None
    ELSE IF upper(Head(assets).symbol) = upper(asset_name)
         THEN Head(assets).tickerHash
         ELSE FirstMatch(Tail(assets), asset_name)

RECURSIVE FirstMatchInChains(_, _)
FirstMatchInChains(chains, asset_name) ==
    IF chains = << >> THEN None
    ELSE IF FirstMatch(Head(chains).assets, asset_name) # None
         THEN FirstMatch(Head(chains).assets, asset_name)
         ELSE FirstMatchInChains(Tail(chains), asset_name)

ChainAssets(chains, origin_chain) ==
    IF \E k \in 1..Len(chains) : chains[k].id = origin_chain
    THEN chains[CHOOSE k \in 1..Len(chains) : chains[k].id = origin_chain].assets
    ELSE << >>

\* variant: the hinted chain's catalog is searched before the hub's
get_ticker_hash_from_asset_name_chain_first(chain_data, asset_name, origin_chain) ==
    IF ~chain_data.loaded THEN None
    ELSE IF FirstMatch(ChainAssets(chain_data.chains, origin_chain), asset_name) # None
         THEN FirstMatch(ChainAssets(chain_data.chains, origin_chain), asset_name)
    ELSE IF FirstMatch(chain_data.hub, asset_name) # None
         THEN FirstMatch(chain_data.hub, asset_name)
    ELSE FirstMatchInChains(chain_data.chains, asset_name)

get_ticker_hash_from_asset_name(chain_data, asset_name, origin_chain) ==
    IF ~chain_data.loaded THEN None
    ELSE IF FirstMatch(chain_data.hub, asset_name) # None
         THEN FirstMatch(chain_data.hub, asset_name)
    ELSE IF FirstMatch(ChainAssets(chain_data.chains, origin_chain), asset_name) # None
         THEN FirstMatch(ChainAssets(chain_data.chains, origin_chain), asset_name)
    ELSE FirstMatchInChains(chain_data.chains, asset_name)

\* --------------------------------------------------- lookup_settlement_times
\* the dataset files: per route the bucket names in stored order and the bins
Stored(keys, bins) == [keys |-> keys, bins |-> bins]

DataFiles ==
    [populated |->
       (<<"1", "10", "0xa">> :>
           Stored(<<"1000000+", "0-50000", "50000-100000">>,
                  ("1000000+" :> RealBin(Rat(40, 1)))
                  @@ ("0-50000" :> GeneratedBin(Rat(28, 1), "weighted_interpolation"))
                  @@ ("50000-100000" :> LegacyBin(Rat(30, 1)))))
       @@ (<<"1", "42161", "0xa">> :> Stored(<< >>, << >>))
       @@ (<<"10", "1", "0xb">> :>
           Stored(<<"0-50000">>, ("0-50000" :> RealBin(Rat(12, 1))))),
     \* a file whose bin has no p25
     partial |->
       (<<"1", "10", "0xa">> :>
           Stored(<<"0-50000">>,
                  ("0-50000" :> [p50 |-> Rat(28, 1), p75 |-> Rat(182, 5),
                                 sample_size |-> 3])))]

Get(d, key, default) == IF key \in DOMAIN d THEN d[key] ELSE default

NotFound(error) == [found |-> FALSE, error |-> error]

\* variant: an absent bucket is answered from the first stored bucket
lookup_settlement_times_substitute(json_file_path, origin_chain, destination_chain, asset_hash, amount_range) ==
    IF json_file_path \notin DOMAIN DataFiles THEN NotFound("file")
    ELSE
    LET data_ == DataFiles[json_file_path]
        route == <<origin_chain, destination_chain, asset_hash>>
    IN  IF ~\E r \in DOMAIN data_ : r[1] = origin_chain
        THEN NotFound("origin")
        ELSE IF ~\E r \in DOMAIN data_ : r[1] = origin_chain /\ r[2] = destination_chain
        THEN NotFound("destination")
        ELSE IF route \notin DOMAIN data_
        THEN NotFound("asset")
        ELSE
        LET asset_data == data_[route]
        IN  IF (amount_range = None \/ amount_range = ""
                \/ amount_range \notin DOMAIN asset_data.bins)
               /\ asset_data.keys = << >>
            THEN NotFound("no_amount_ranges")
            ELSE
            LET target_range == IF amount_range \in DOMAIN asset_data.bins
                                THEN amount_range
                                ELSE asset_data.keys[1]
                range_data == asset_data.bins[target_range]
            IN  [found |-> TRUE,
                 origin_chain |-> origin_chain,
                 destination_chain |-> destination_chain,
                 asset |-> asset_hash,
                 amount_range |-> target_range,
                 p25 |-> Get(range_data, "p25", NoneNumber),
                 p50 |-> Get(range_data, "p50", NoneNumber),
                 p75 |-> Get(range_data, "p75", NoneNumber),
                 sample_size |-> Get(range_data, "sample_size", NoneCount),
                 generated |-> Get(range_data, "generated", FALSE),
                 method |-> Get(range_data, "method", "N/A")]

\* variant: a bin without a generated flag is reported as generated
lookup_settlement_times_flagged(json_file_path, origin_chain, destination_chain, asset_hash, amount_range) ==
    IF json_file_path \notin DOMAIN DataFiles THEN NotFound("file")
    ELSE
    LET data_ == DataFiles[json_file_path]
        route == <<origin_chain, destination_chain, asset_hash>>
    IN  IF ~\E r \in DOMAIN data_ : r[1] = origin_chain
        THEN NotFound("origin")
        ELSE IF ~\E r \in DOMAIN data_ : r[1] = origin_chain /\ r[2] = destination_chain
        THEN NotFound("destination")
        ELSE IF route \notin DOMAIN data_
        THEN NotFound("asset")
        ELSE
        LET asset_data == data_[route]
        IN  IF amount_range # None /\ amount_range # "" /\ amount_range \notin DOMAIN asset_data.bins
            THEN NotFound("amount_range")
            ELSE IF (amount_range = None \/ amount_range = "") /\ asset_data.keys = << >>
            THEN NotFound("no_amount_ranges")
            ELSE
            LET target_range == IF amount_range # None /\ amount_range # ""
                                THEN amount_range
                                ELSE asset_data.keys[1]
                range_data == asset_data.bins[target_range]
            IN  [found |-> TRUE,
                 origin_chain |-> origin_chain,
                 destination_chain |-> destination_chain,
                 asset |-> asset_hash,
                 amount_range |-> target_range,
                 p25 |-> Get(range_data, "p25", NoneNumber),
                 p50 |-> Get(range_data, "p50", NoneNumber),
                 p75 |-> Get(range_data, "p75", NoneNumber),
                 sample_size |-> Get(range_data, "sample_size", NoneCount),
                 generated |-> Get(range_data, "generated", TRUE),
                 method |-> Get(range_data, "method", "N/A")]

\* variant: without an amount range "0-50000" is preferred to the first key
lookup_settlement_times_canonical(json_file_path, origin_chain, destination_chain, asset_hash, amount_range) ==
    IF json_file_path \notin DOMAIN DataFiles THEN NotFound("file")
    ELSE
    LET data_ == DataFiles[json_file_path]
        route == <<origin_chain, destination_chain, asset_hash>>
    IN  IF ~\E r \in DOMAIN data_ : r[1] = origin_chain
        THEN NotFound("origin")
        ELSE IF ~\E r \in DOMAIN data_ : r[1] = origin_chain /\ r[2] = destination_chain
        THEN NotFound("destination")
        ELSE IF route \notin DOMAIN data_
        THEN NotFound("asset")
        ELSE
        LET asset_data == data_[route]
        IN  IF amount_range # None /\ amount_range # "" /\ amount_range \notin DOMAIN asset_data.bins
            THEN NotFound("amount_range")
            ELSE IF (amount_range = None \/ amount_range = "") /\ asset_data.keys = << >>
            THEN NotFound("no_amount_ranges")
            ELSE
            LET target_range == IF amount_range # None /\ amount_range # ""
                                THEN amount_range
                                ELSE IF "0-50000" \in DOMAIN asset_data.bins
                                THEN "0-50000"
                                ELSE asset_data.keys[1]
                range_data == asset_data.bins[target_range]
            IN  [found |-> TRUE,
                 origin_chain |-> origin_chain,
                 destination_chain |-> destination_chain,
                 asset |-> asset_hash,
                 amount_range |-> target_range,
                 p25 |-> Get(range_data, "p25", NoneNumber),
                 p50 |-> Get(range_data, "p50", NoneNumber),
                 p75 |-> Get(range_data, "p75", NoneNumber),
                 sample_size |-> Get(range_data, "sample_size", NoneCount),
                 generated |-> Get(range_data, "generated", FALSE),
                 method |-> Get(range_data, "method", "N/A")]

lookup_settlement_times(json_file_path, origin_chain, destination_chain, asset_hash, amount_range) ==
    IF json_file_path \notin DOMAIN DataFiles THEN NotFound("file")
    ELSE
    LET data_ == DataFiles[json_file_path]
        route == <<origin_chain, destination_chain, asset_hash>>
    IN  IF ~\E r \in DOMAIN data_ : r[1] = origin_chain
        THEN NotFound("origin")
        ELSE IF ~\E r \in DOMAIN data_ : r[1] = origin_chain /\ r[2] = destination_chain
        THEN NotFound("destination")
        ELSE IF route \notin DOMAIN data_
        THEN NotFound("asset")
        ELSE
        LET asset_data == data_[route]
        IN  IF amount_range # None /\ amount_range # "" /\ amount_range \notin DOMAIN asset_data.bins
            THEN NotFound("amount_range")
            ELSE IF (amount_range = None \/ amount_range = "") /\ asset_data.keys = << >>
            THEN NotFound("no_amount_ranges")
            ELSE
            LET target_range == IF amount_range # None /\ amount_range # ""
                                THEN amount_range
                                ELSE asset_data.keys[1]
                range_data == asset_data.bins[target_range]
            IN  [found |-> TRUE,
                 origin_chain |-> origin_chain,
                 destination_chain |-> destination_chain,
                 asset |-> asset_hash,
                 amount_range |-> target_range,
                 p25 |-> Get(range_data, "p25", NoneNumber),
                 p50 |-> Get(range_data, "p50", NoneNumber),
                 p75 |-> Get(range_data, "p75", NoneNumber),
                 sample_size |-> Get(range_data, "sample_size", NoneCount),
                 generated |-> Get(range_data, "generated", FALSE),
                 method |-> Get(range_data, "method", "N/A")]

\* -------------------------------------------------------- find_amount_bucket
\* variant: exclusive upper bounds
find_amount_bucket_exclusive(amount) ==
    IF amount < 50000 * 100 THEN "0-50000"
    ELSE IF amount < 100000 * 100 THEN "50000-100000"
    ELSE IF amount < 300000 * 100 THEN "100000-300000"
    ELSE IF amount < 400000 * 100 THEN "300000-400000"
    ELSE IF amount < 500000 * 100 THEN "400000-500000"
    ELSE IF amount < 700000 * 100 THEN "500000-700000"
    ELSE IF amount < 1000000 * 100 THEN "700000-1000000"
    ELSE "1000000+"

\* variant: only the last bound is exclusive
find_amount_bucket_last_exclusive(amount) ==
    IF amount <= 50000 * 100 THEN "0-50000"
    ELSE IF amount <= 100000 * 100 THEN "50000-100000"
    ELSE IF amount <= 300000 * 100 THEN "100000-300000"
    ELSE IF amount <= 400000 * 100 THEN "300000-400000"
    ELSE IF amount <= 500000 * 100 THEN "400000-500000"
    ELSE IF amount <= 700000 * 100 THEN "500000-700000"
    ELSE IF amount < 1000000 * 100 THEN "700000-1000000"
    ELSE "1000000+"

\* amounts are in cents: 50000.01 USD is 5000001
find_amount_bucket(amount) ==
    IF amount <= 50000 * 100 THEN "0-50000"
    ELSE IF amount <= 100000 * 100 THEN "50000-100000"
    ELSE IF amount <= 300000 * 100 THEN "100000-300000"
    ELSE IF amount <= 400000 * 100 THEN "300000-400000"
    ELSE IF amount <= 500000 * 100 THEN "400000-500000"
    ELSE IF amount <= 700000 * 100 THEN "500000-700000"
    ELSE IF amount <= 1000000 * 100 THEN "700000-1000000"
    ELSE "1000000+"

\* the bounds of the canonical buckets, in cents
BucketLower ==
    << 0, 5000000, 10000000, 30000000, 40000000, 50000000, 70000000,
       100000000 >>

BucketUpper ==
    << 5000000, 10000000, 30000000, 40000000, 50000000, 70000000,
       100000000 >>

Amounts ==
    {k * 2500000 : k \in (-2)..MaxAmountK}
    \cup {BucketUpper[k] + e : k \in 1..Len(BucketUpper), e \in {-1, 0, 1}}
    \cup {0, 1, 500000000}

LookupInit ==
    /\ heap = << >>
    /\ data = << >>
    /\ missing_combinations = <<>>
    /\ populated_data = << >>
    /\ bin_stats = << >>
    /\ existing_bins = {}
    /\ i = 0 /\ j = 0
    /\ pass = 1
    /\ pc = "lookup"
    /\ failure = "none"
    /\ usd_amount = 0
    /\ amount_bucket = "none"
    /\ query = << >>
    /\ result = "none"

\* amount_bucket = find_amount_bucket(usd_amount)
FindAmountBucket ==
    /\ pc = "lookup"
    /\ \E amount \in Amounts :
         /\ usd_amount' = amount
         /\ amount_bucket' = find_amount_bucket(amount)
    /\ pc' = "looked"
    /\ UNCHANGED << gapVars_nopc, query, result >>

\* ------------------------------------------------------------------ run_lookup
\* what an entry point came to: the value of its call of
\* lookup_settlement_times (or why it was not called) and the keys it used
Outcome(returned, origin_chain, destination_chain, asset_hash, amount_range) ==
    [returned |-> returned, origin_chain |-> origin_chain,
     destination_chain |-> destination_chain, asset_hash |-> asset_hash,
     amount_range |-> amount_range]

run_lookup(origin_chain, destination_chain, asset_symbol, amount, json_file_path, chain_data_path) ==
    LET origin_chain_id == get_chain_id_from_name(origin_chain)
        destination_chain_id == get_chain_id_from_name(destination_chain)
        chain_data == load_chain_data(chain_data_path)
        amount_range == find_amount_bucket(amount)
        asset_hash == get_ticker_hash_from_asset_name(chain_data, asset_symbol,
                                                      origin_chain_id)
    IN  IF asset_hash = None
        THEN Outcome(NotFound("ticker_hash"), origin_chain_id,
                     destination_chain_id, asset_hash, amount_range)
        ELSE Outcome(lookup_settlement_times(json_file_path, origin_chain_id,
                                             destination_chain_id, asset_hash,
                                             amount_range),
                     origin_chain_id, destination_chain_id, asset_hash,
                     amount_range)

\* ------------------------------------------------------------------------ main
NoTokenAmountInfo ==
    [amount |-> NoneNumber, asset |-> NoneText, usd_value |-> NoneNumber,
     bucket |-> None]

\* the outcome, with token_amount_info and whether the unknown-price warning
\* of convert_to_usd was printed
main(args) ==
    LET chain_data == load_chain_data(args.chain_data)
        parsed == IF TruthyText(args.amount)
                  THEN parse_token_amount(args.amount)
                  ELSE [amount |-> NoneNumber, asset_symbol |-> NoneText]
        token == TruthyNumber(parsed.amount) /\ TruthyText(parsed.asset_symbol)
        converted == convert_to_usd(parsed.amount, parsed.asset_symbol)
        usd_value == converted.usd
        amount_range == IF token THEN find_amount_bucket(Cents(usd_value))
                        ELSE IF TruthyText(args.amount) THEN Str(args.amount)
                        ELSE None
        token_amount_info == IF token
                             THEN [amount |-> parsed.amount,
                                   asset |-> parsed.asset_symbol,
                                   usd_value |-> usd_value,
                                   bucket |-> amount_range]
                             ELSE NoTokenAmountInfo
        asset_from_amount == IF token THEN parsed.asset_symbol ELSE NoneText
        asset_to_use == IF TruthyText(asset_from_amount) THEN asset_from_amount
                        ELSE args.asset
        asset_hash == IF startswith(asset_to_use, <<"0", "x">>)
                      THEN Str(asset_to_use)
                      ELSE get_ticker_hash_from_asset_name(chain_data, asset_to_use,
                                                           Str(args.origin))
        returned == IF asset_hash = None THEN NotFound("ticker_hash")
                    ELSE lookup_settlement_times(args.file, Str(args.origin),
                                                 Str(args.destination), asset_hash,
                                                 amount_range)
    IN  [returned |-> returned, origin_chain |-> Str(args.origin),
         destination_chain |-> Str(args.destination), asset_hash |-> asset_hash,
         amount_range |-> amount_range, token_amount_info |-> token_amount_info,
         warning |-> token /\ converted.warned]

\* the inputs of the entry points
ChainInputs ==
    {<<"1">>,
     <<"E", "t", "h", "e", "r", "e", "u", "m">>,
     <<"1", "0">>,
     <<"e", "t", "h">>}

DestinationInputs ==
    {<<"1", "0">>,
     <<"o", "p", "t", "i", "m", "i", "s", "m">>,
     <<"4", "2", "1", "6", "1">>,
     <<"1">>}

AssetInputs ==
    {<<"W", "E", "T", "H">>,
     <<"w", "e", "t", "h">>,
     <<"0", "x", "a">>,
     <<"d", "a", "i">>,
     <<"D", "O", "G", "E">>,
     <<"U", "S", "D", "C">>}

AmountInputs ==
    {NoneText,
     <<"0", "-", "5", "0", "0", "0", "0">>,
     <<"5", "0", "0", "0", "0", "-", "1", "0", "0", "0", "0", "0">>,
     <<"7", "0", "0", "0", "0", "0", "-", "1", "0", "0", "0", "0", "0", "0">>,
     <<"1", "0", " ", "W", "E", "T", "H">>,
     <<"0", " ", "W", "E", "T", "H">>,
     <<"0", ".", "0", " ", "u", "s", "d", "c">>,
     <<" ", "2", "0", " ", " ", "w", "e", "t", "h", " ">>,
     <<"3", "0", "0", " ", "E", "T", "H">>,
     <<"4", "0", "0", "0", "0", " ", "d", "a", "i">>,
     <<"1", "2", " ", "D", "O", "G", "E">>,
     <<"1", "0", "W", "E", "T", "H">>,
     <<"1", " ", "c", "b", "B", "T", "C">>}

\* USD amounts in cents given to run_lookup
UsdInputs == {-2500000, 0, 4250000, 5000000, 5000001, 100000000, 500000000}

JsonFilePaths == {"populated", "absent"}
ChainDataPaths == {"chain_data", "no_hub", "absent"}

RunLookup ==
    /\ pc = "lookup"
    /\ \E origin_chain \in ChainInputs, destination_chain \in DestinationInputs,
          asset_symbol \in AssetInputs, amount \in UsdInputs,
          json_file_path \in JsonFilePaths, chain_data_path \in ChainDataPaths :
         /\ usd_amount' = amount
         /\ query' = [entry |-> "run_lookup", origin |-> origin_chain,
                      destination |-> destination_chain, asset |-> asset_symbol,
                      amount |-> NoneText, file |-> json_file_path,
                      chain_data |-> chain_data_path]
         /\ result' = run_lookup(origin_chain, destination_chain, asset_symbol,
                                 amount, json_file_path, chain_data_path)
         /\ amount_bucket' = find_amount_bucket(amount)
    /\ pc' = "returned"
    /\ UNCHANGED gapVars_nopc

Main ==
    /\ pc = "lookup"
    /\ \E args \in [origin : ChainInputs, destination : DestinationInputs,
                    asset : AssetInputs, amount : AmountInputs,
                    file : JsonFilePaths, chain_data : ChainDataPaths] :
         /\ query' = [entry |-> "main", origin |-> args.origin,
                      destination |-> args.destination, asset |-> args.asset,
                      amount |-> args.amount, file |-> args.file,
                      chain_data |-> args.chain_data]
         /\ result' = main(args)
    /\ pc' = "exited"
    /\ UNCHANGED << gapVars_nopc, usd_amount, amount_bucket >>

LookupNext ==
    \/ FindAmountBucket
    \/ RunLookup
    \/ Main

LookupSpec == LookupInit /\ [][LookupNext]_vars

\* ============================================== tests/run_test_cases.py
\* str.replace(',', '')
without_commas(t) == SelectSeq(t, LAMBDA c : c # ",")

\* float(text) of an unsigned decimal text; ValueError for any other text
ValueError == [num |-> 0, den |-> -2]

float(t) ==
    LET s == strip(t)
        n1 == Run(s, DigitChars)
        s1 == Drop(s, n1)
        dot == s1 # <<>> /\ Head(s1) = "."
        nf == IF dot THEN Run(Tail(s1), DigitChars) ELSE 0
        rest == IF dot THEN Drop(s1, 1 + nf) ELSE s1
    IN  IF (n1 > 0 \/ nf > 0) /\ rest = <<>>
        THEN Rat(DigitsValue(SubSeq(s, 1, n1)) * Pow10(nf)
                   + DigitsValue(SubSeq(s1, 2, 1 + nf)),
                 Pow10(nf))
        ELSE ValueError

RSub(x, y) == Rat(x.num * y.den - y.num * x.den, x.den * y.den)
RAbs(x) == [num |-> Abs(x.num), den |-> x.den]
RLess(x, y) == x.num * y.den < y.num * x.den

\* abs(actual - expected) < 0.01 in floating point; at_bound is its value
\* when the decimal values differ by exactly 0.01
within_tolerance(actual, expected, at_bound) ==
    LET d == RAbs(RSub(actual, expected))
    IN  IF d = Rat(1, 100) THEN at_bound ELSE RLess(d, Rat(1, 100))

\* a row of the CSV file
TestCase(from_chain_name, to_chain_name, from_asset_symbol, amount, p25, p50, p75) ==
    [from_chain_name |-> from_chain_name, to_chain_name |-> to_chain_name,
     from_asset_symbol |-> from_asset_symbol, amount |-> amount,
     p25 |-> p25, p50 |-> p50, p75 |-> p75]

\* what run_single_test returns: None, or the dictionary with its success
\* flag; compared tells that all_match was computed
NoTestResult == [returned |-> FALSE, success |-> FALSE, compared |-> FALSE]
TestResult(success, compared) ==
    [returned |-> TRUE, success |-> success, compared |-> compared]

run_single_test(test_case, json_file_path, chain_data_path, at_bound) ==
    LET usd == float(without_commas(test_case.amount))
        result_ == run_lookup(test_case.from_chain_name, test_case.to_chain_name,
                              test_case.from_asset_symbol, Cents(usd),
                              json_file_path, chain_data_path).returned
        expected == [m \in {"p25", "p50", "p75"} |-> float(test_case[m])]
    IN  IF usd = ValueError THEN NoTestResult
        ELSE IF ~result_.found THEN TestResult(FALSE, FALSE)
        ELSE IF \A m \in {"p25", "p50", "p75"} : TruthyText(test_case[m])
        THEN \* except (ValueError, TypeError): counted as a pass
             IF \/ \E m \in {"p25", "p50", "p75"} : expected[m] = ValueError
                \/ \E m \in {"p25", "p50", "p75"} : result_[m].den <= 0
             THEN TestResult(TRUE, FALSE)
             ELSE TestResult(\A m \in {"p25", "p50", "p75"} :
                                 within_tolerance(result_[m], expected[m], at_bound),
                             TRUE)
        ELSE TestResult(TRUE, FALSE)

\* the rows a CSV file is made of
WethRow(amount, p25, p50, p75) ==
    TestCase(<<"1">>, <<"1", "0">>, <<"W", "E", "T", "H">>, amount, p25, p50, p75)

TestRows ==
    {WethRow(<<"4", "2", ",", "5", "0", "0">>,
             <<"1", "9", ".", "6">>, <<"2", "8">>, <<"3", "6", ".", "4">>),
     WethRow(<<"4", "2", "5", "0", "0">>,
             <<"1", "9", ".", "6">>, <<"2", "8", ".", "5">>, <<"3", "6", ".", "4">>),
     WethRow(<<"4", "2", "5", "0", "0">>,
             <<"1", "9", ".", "6", "1">>, <<"2", "8">>, <<"3", "6", ".", "4">>),
     WethRow(<<"4", "2", "5", "0", "0">>, <<>>, <<>>, <<>>),
     WethRow(<<"4", "2", "5", "0", "0">>,
             <<"1", "9", ".", "6">>, <<"n", "/", "a">>, <<"3", "6", ".", "4">>),
     WethRow(<<"n", "/", "a">>,
             <<"1", "9", ".", "6">>, <<"2", "8">>, <<"3", "6", ".", "4">>),
     TestCase(<<"1">>, <<"1", "0">>, <<"D", "O", "G", "E">>, <<"4", "2", "5", "0", "0">>,
              <<"1", "9", ".", "6">>, <<"2", "8">>, <<"3", "6", ".", "4">>)}

MaxTests == 2

CsvFiles == UNION {[1..n -> TestRows] : n \in 0..MaxTests}
TestJsonPaths == {"populated", "partial", "absent"}

NotExited == NoneCount

TestInit ==
    /\ heap = << >>
    /\ data = << >>
    /\ missing_combinations = <<>>
    /\ populated_data = << >>
    /\ bin_stats = << >>
    /\ existing_bins = {}
    /\ i = 0 /\ j = 0
    /\ pass = 1
    /\ pc = "main"
    /\ failure = "none"
    /\ usd_amount = 0
    /\ amount_bucket = "none"
    /\ \E csv \in CsvFiles, json \in TestJsonPaths :
         query = [csv |-> csv, json |-> json, chain_data |-> "chain_data"]
    /\ result = [details |-> <<>>, passed |-> 0, failed |-> 0, ran |-> FALSE,
                 exit |-> NotExited]

\* main up to the loop of run_all_tests: the files must exist, and an empty
\* list of test cases makes run_all_tests return None
TestMain ==
    /\ pc = "main"
    /\ IF query.json \notin DOMAIN DataFiles
          \/ query.chain_data \notin DOMAIN ChainDataFiles
       THEN /\ result' = [result EXCEPT !.exit = 1]
            /\ pc' = "exited"
            /\ i' = i
       ELSE IF query.csv = <<>>
       THEN /\ result' = [result EXCEPT !.exit = 0]
            /\ pc' = "exited"
            /\ i' = i
       ELSE /\ result' = [result EXCEPT !.ran = TRUE]
            /\ pc' = "testing"
            /\ i' = 1
    /\ UNCHANGED << heap, data, missing_combinations, populated_data, bin_stats,
                    existing_bins, j, pass, failure, usd_amount, amount_bucket,
                    query >>

\* one turn of the loop of run_all_tests
RunSingleTest ==
    /\ pc = "testing"
    /\ i <= Len(query.csv)
    /\ \E at_bound \in BOOLEAN :
         LET result_ == run_single_test(query.csv[i], query.json,
                                        query.chain_data, at_bound)
         IN  result' =
               IF result_.returned
               THEN [result EXCEPT
                       !.details = Append(@, result_),
                       !.passed = IF result_.success THEN @ + 1 ELSE @,
                       !.failed = IF result_.success THEN @ ELSE @ + 1]
               ELSE [result EXCEPT !.failed = @ + 1]
    /\ i' = i + 1
    /\ UNCHANGED << heap, data, missing_combinations, populated_data, bin_stats,
                    existing_bins, j, pass, pc, failure, usd_amount,
                    amount_bucket, query >>

\* if results and results['failed'] > 0: sys.exit(1)
TestExit ==
    /\ pc = "testing"
    /\ i > Len(query.csv)
    /\ result' = [result EXCEPT !.exit = IF result.failed > 0 THEN 1 ELSE 0]
    /\ pc' = "exited"
    /\ UNCHANGED << heap, data, missing_combinations, populated_data, bin_stats,
                    existing_bins, i, j, pass, failure, usd_amount,
                    amount_bucket, query >>

TestNext ==
    \/ TestMain
    \/ RunSingleTest
    \/ TestExit

TestSpec == TestInit /\ [][TestNext]_vars

\* ======================================================== checked properties
Methods ==
    {"baseline_scaling", "baseline_scaling_global", "weighted_interpolation",
     "cross_combination_average", "default_fallback"}

Filling == pc \in {"route", "bin"}
Complete(v) == \A r \in DOMAIN v : ExpectedBinSet \subseteq DOMAIN v[r]
AddedBins(r) == DOMAIN Output[r] \ DOMAIN Input[r]
IsGenerated(bin) == "generated" \in DOMAIN bin /\ bin.generated
NoInputGenerated ==
    \A r \in DOMAIN Input : \A b \in DOMAIN Input[r] : ~IsGenerated(Input[r][b])

\* C1: after find_missing_bins and populate_missing_bins every route of the
\* input is a route of the output and holds all 8 canonical buckets
C1_OutputComplete ==
    pc = "done" => DOMAIN Output = DOMAIN Input /\ Complete(Output)

C1_Witness ==
    /\ pc = "done" /\ pass = 1
    /\ \E r \in DOMAIN Input : DOMAIN Input[r] = {}
    /\ \E r \in DOMAIN Input : DOMAIN Input[r] = {"0-50000", "500000-700000"}

\* a step of populate_missing_bins leaves the input dataset as it was and
\* the copy shares no dict of bins with it
InputKept ==
    pc \in {"populate", "route", "bin"} =>
        /\ Deref(heap', data') = Deref(heap, data)
        /\ \A r \in DOMAIN populated_data', q \in DOMAIN data' :
             populated_data'[r] # data'[q]

\* C2: populate_missing_bins never mutates the dataset it is given; every
\* write goes to the separate copy
C2_InputNotMutated == [][InputKept]_vars

C2_Witness ==
    /\ pc = "done"
    /\ \E r \in DOMAIN Input : AddedBins(r) # {}

\* C3: every bin of the input is in the output with identical fields, and the
\* output adds only canonical buckets that the route was missing
C3_ExistingBinsUntouched ==
    (Filling \/ pc = "done") =>
        /\ DOMAIN Output = DOMAIN Input
        /\ \A r \in DOMAIN Input :
             /\ \A b \in DOMAIN Input[r] :
                  b \in DOMAIN Output[r] /\ Output[r][b] = Input[r][b]
             /\ AddedBins(r) \subseteq ExpectedBinSet

C3_Witness ==
    /\ pc = "done"
    /\ \E r \in DOMAIN Input :
         /\ AddedBins(r) # {}
         /\ \E b \in DOMAIN Input[r] : IsGenerated(Input[r][b])
    /\ \E r \in DOMAIN Input :
         /\ AddedBins(r) # {}
         /\ \E b \in DOMAIN Input[r] : ~IsGenerated(Input[r][b])

\* C4: a run on a dataset whose routes all hold the 8 canonical buckets finds
\* nothing missing and returns the dataset unchanged
C4_Idempotent ==
    (pc = "done" /\ Complete(Input)) =>
        missing_combinations = <<>> /\ Output = Input

C4_Witness ==
    /\ pc = "done" /\ pass = 2
    /\ Complete(Input)
    /\ \E r \in DOMAIN Input : \E b \in DOMAIN Input[r] :
         IsGenerated(Input[r][b])

\* C5: every added bin has generated = TRUE and one of the five methods; when
\* no input bin is generated, so has every generated bin of the output
C5_GeneratedHaveMethod ==
    (Filling \/ pc = "done") =>
        /\ \A r \in DOMAIN Input : \A b \in AddedBins(r) :
             /\ IsGenerated(Output[r][b])
             /\ "method" \in DOMAIN Output[r][b]
             /\ Output[r][b].method \in Methods
        /\ NoInputGenerated =>
             \A r \in DOMAIN Output : \A b \in DOMAIN Output[r] :
                IsGenerated(Output[r][b]) =>
                   /\ "method" \in DOMAIN Output[r][b]
                   /\ Output[r][b].method \in Methods

C5_Witness ==
    /\ pc = "done"
    /\ NoInputGenerated
    /\ \E r \in DOMAIN Input :
         /\ "0-50000" \in AddedBins(r)
         /\ Output[r]["0-50000"].method = "default_fallback"
    /\ \E r \in DOMAIN Input : \E b \in AddedBins(r) :
         Output[r][b].method = "baseline_scaling"

\* C6: a route that holds "0-50000" and misses "50000-100000" gets the latter
\* with method baseline_scaling
C6_BaselinePrecedence ==
    pc = "done" =>
        \A r \in DOMAIN Input :
           ("0-50000" \in DOMAIN Input[r] /\ "50000-100000" \notin DOMAIN Input[r])
              => Output[r]["50000-100000"].method = "baseline_scaling"

C6_Witness ==
    /\ pc = "done"
    /\ "50000-100000" \in DOMAIN bin_stats
    /\ "0-50000" \in DOMAIN bin_stats
    /\ Len(bin_stats["0-50000"].p50) > 1
    /\ \E r \in DOMAIN Input :
         /\ "0-50000" \in DOMAIN Input[r]
         /\ "50000-100000" \notin DOMAIN Input[r]

\* no strategy before default_fallback applies to a route's original bins
NoUsableStatistics(v, r, b) ==
    LET stats == collect_bin_statistics(v)
    IN  /\ baseline_bin \notin DOMAIN v[r]
        /\ baseline_bin \notin DOMAIN stats
        /\ Contributing(stats, DOMAIN v[r]) = <<>>
        /\ b \notin DOMAIN stats

\* C7: every missing bucket without usable global statistics is filled with
\* the default_fallback bin (10.0, 15.0, 25.0)
C7_TerminalGuarantee ==
    pc = "done" =>
        \A r \in DOMAIN Input : \A b \in AddedBins(r) :
           NoUsableStatistics(Input, r, b) => Output[r][b] = default_fallback

\* C8: every generated bin is the one the strategies compute from the route's
\* original (pre-fill) bins
C8_ReadsOriginalBins ==
    pc = "done" =>
        \A r \in DOMAIN Input : \A b \in AddedBins(r) :
           \E ties \in TieChoices :
              Output[r][b] =
                 interpolate_bin_data(collect_bin_statistics(Input), b,
                                      DOMAIN Input[r], Input[r], ties)

\* the first bucket, in catalog order, whose upper bound is >= the amount
FirstBucketUpTo(amount) ==
    LET ks == {k \in 1..Len(BucketUpper) : amount <= BucketUpper[k]}
    IN  IF ks = {} THEN EXPECTED_BINS[Len(EXPECTED_BINS)]
        ELSE EXPECTED_BINS[CHOOSE k \in ks : \A m \in ks : k <= m]

\* C9: a non-negative amount maps to the first bucket whose inclusive upper
\* bound is >= the amount, to "1000000+" above 1000000
C9_InclusiveUpperBounds ==
    (pc = "looked" /\ usd_amount >= 0) =>
        /\ amount_bucket \in ExpectedBinSet
        /\ amount_bucket = FirstBucketUpTo(usd_amount)
        /\ usd_amount = 5000000 => amount_bucket = "0-50000"
        /\ usd_amount = 5000001 => amount_bucket = "50000-100000"
        /\ usd_amount = 500000000 => amount_bucket = "1000000+"

C9_Witness ==
    pc = "looked" /\ usd_amount = 5000001 /\ amount_bucket = "50000-100000"

\* C10 as stated: the bucket is the one whose range [lower, upper) holds the
\* amount
C10_HalfOpenLower ==
    (pc = "looked" /\ usd_amount >= 0) =>
        \E k \in 1..Len(EXPECTED_BINS) :
           /\ amount_bucket = EXPECTED_BINS[k]
           /\ BucketLower[k] <= usd_amount
           /\ k <= Len(BucketUpper) => usd_amount < BucketUpper[k]

\* C10 amended: the bucket is the one whose range (lower, upper] holds the
\* amount ([0, 50000] for the first): an amount equal to a bound belongs to
\* the bucket that ends there, "1000000+" holds the amounts above 1000000
C10_HalfOpenUpper ==
    (pc = "looked" /\ usd_amount >= 0) =>
        \E k \in 1..Len(EXPECTED_BINS) :
           /\ amount_bucket = EXPECTED_BINS[k]
           /\ BucketLower[k] < usd_amount \/ (k = 1 /\ usd_amount = 0)
           /\ k <= Len(BucketUpper) => usd_amount <= BucketUpper[k]

C10_Witness ==
    pc = "looked" /\ usd_amount = 100000000 /\ amount_bucket = "700000-1000000"

\* C11: find_amount_bucket of a negative amount fails with InvalidAmount and
\* returns no bucket name
C11_NegativeRejected ==
    (pc = "looked" /\ usd_amount < 0) =>
        amount_bucket = "InvalidAmount" /\ amount_bucket \notin ExpectedBinSet

\* the stored dataset an entry point read, and the route it indexed
Finished == pc \in {"returned", "exited"}
FileRead == query.file \in DOMAIN DataFiles
QueriedRoute ==
    <<result.origin_chain, result.destination_chain, result.asset_hash>>
RouteStored == FileRead /\ QueriedRoute \in DOMAIN DataFiles[query.file]
BucketGiven == result.amount_range # None /\ result.amount_range # ""

\* C12: a lookup whose origin, destination or asset key is not in the dataset
\* returns no result; a lookup whose bucket is not stored for an existing
\* route returns no result, reports the absent bucket and no statistics
C12_AbsentKeyFails ==
    (Finished /\ FileRead) =>
        /\ ~RouteStored => ~result.returned.found
        /\ (/\ RouteStored
            /\ BucketGiven
            /\ result.amount_range
                 \notin DOMAIN DataFiles[query.file][QueriedRoute].bins)
           => result.returned = NotFound("amount_range")

C12_Witness ==
    /\ Finished /\ RouteStored /\ BucketGiven
    /\ DataFiles[query.file][QueriedRoute].keys # << >>
    /\ result.amount_range \notin DOMAIN DataFiles[query.file][QueriedRoute].bins
    /\ result.returned = NotFound("amount_range")

StatKeys == {"p25", "p50", "p75", "sample_size", "generated", "method"}
Found == Finished /\ result.returned.found
ReturnedBin ==
    DataFiles[query.file][QueriedRoute].bins[result.returned.amount_range]

\* C13: a successful lookup returns the six statistics exactly as stored for
\* the route and bucket, adding or defaulting nothing, and the resolved keys
C13_Verbatim ==
    Found =>
        /\ \A k \in StatKeys :
              k \in DOMAIN ReturnedBin /\ result.returned[k] = ReturnedBin[k]
        /\ result.returned.origin_chain = result.origin_chain
        /\ result.returned.destination_chain = result.destination_chain
        /\ result.returned.asset = result.asset_hash

\* C13 amended: a successful lookup returns p25, p50, p75 and the sample size
\* as stored for the route and bucket, generated as stored or false when the
\* bin stores no flag, method as stored or "N/A" when the bin stores none,
\* and the resolved origin, destination, asset and bucket keys
C13_StoredOrDefault ==
    Found =>
        /\ \A k \in {"p25", "p50", "p75", "sample_size"} :
              k \in DOMAIN ReturnedBin => result.returned[k] = ReturnedBin[k]
        /\ result.returned.generated =
              (IF "generated" \in DOMAIN ReturnedBin THEN ReturnedBin.generated
               ELSE FALSE)
        /\ result.returned.method =
              (IF "method" \in DOMAIN ReturnedBin THEN ReturnedBin.method
               ELSE "N/A")
        /\ result.returned.origin_chain = result.origin_chain
        /\ result.returned.destination_chain = result.destination_chain
        /\ result.returned.asset = result.asset_hash
        /\ BucketGiven => result.returned.amount_range = result.amount_range

C13_Witness ==
    /\ Found
    /\ "generated" \notin DOMAIN ReturnedBin
    /\ result.returned.generated = FALSE /\ result.returned.method = "N/A"
    /\ result.returned.p50 = ReturnedBin.p50

\* C14: run_lookup and main index the dataset by the chain resolver's value
\* of the origin and destination inputs: the id of a name in the chain-name
\* table, any other input unchanged
C14_ChainsResolved ==
    Finished =>
        /\ result.origin_chain = get_chain_id_from_name(query.origin)
        /\ result.destination_chain = get_chain_id_from_name(query.destination)

\* the amount text of a main call reads as "<number> <letters>"
AmountGiven == pc = "exited" /\ TruthyText(query.amount)
Parsed == parse_token_amount(query.amount)
AmountParses == AmountGiven /\ Parsed.asset_symbol # NoneText
ResolvedFrom(asset) ==
    IF startswith(asset, <<"0", "x">>) THEN Str(asset)
    ELSE get_ticker_hash_from_asset_name(load_chain_data(query.chain_data),
                                         asset, Str(query.origin))

\* C15: main resolves the asset from the symbol embedded in a token amount
\* when the amount text has one, and from the asset argument only otherwise
C15_EmbeddedSymbolFirst ==
    pc = "exited" =>
        result.asset_hash =
            (IF AmountParses THEN ResolvedFrom(Parsed.asset_symbol)
             ELSE ResolvedFrom(query.asset))

\* C16: main converts every amount text of the form "<number> <letters>" to
\* USD and looks up the bucket of that value, a zero amount included; only a
\* text that does not parse is used as a literal bucket name
C16_ParsedIsTokenAmount ==
    AmountGiven =>
        result.amount_range =
            (IF AmountParses
             THEN find_amount_bucket(
                     Cents(convert_to_usd(Parsed.amount, Parsed.asset_symbol).usd))
             ELSE Str(query.amount))

\* C17: the USD value of a token amount is amount x price for a symbol in the
\* price table and the amount itself, with a warning and no failure, for a
\* symbol absent from it; 10 WETH is 42500 USD, in bucket "0-50000"
C17_UsdValue ==
    (pc = "exited" /\ result.token_amount_info # NoTokenAmountInfo) =>
        LET info == result.token_amount_info
            symbol == Str(info.asset)
        IN  /\ symbol \in DOMAIN get_token_prices
               => /\ info.usd_value = RMul(info.amount, get_token_prices[symbol])
                  /\ ~result.warning
            /\ symbol \notin DOMAIN get_token_prices
               => /\ info.usd_value = info.amount
                  /\ result.warning
            /\ result.amount_range = info.bucket
            /\ (info.amount = Rat(10, 1) /\ symbol = "WETH")
               => info.usd_value = Rat(42500, 1) /\ info.bucket = "0-50000"

C17_Witness ==
    /\ pc = "exited"
    /\ result.token_amount_info # NoTokenAmountInfo
    /\ Str(result.token_amount_info.asset) = "DOGE"
    /\ result.token_amount_info.usd_value = Rat(12, 1)
    /\ result.warning
    /\ result.amount_range = "0-50000"

\* the catalogs in search order: hub, hinted chain, every chain
RECURSIVE AllChainAssets(_)
AllChainAssets(chains) ==
    IF chains = << >> THEN << >>
    ELSE Head(chains).assets \o AllChainAssets(Tail(chains))

SearchOrder(chain_data, origin_chain) ==
    chain_data.hub \o ChainAssets(chain_data.chains, origin_chain)
                   \o AllChainAssets(chain_data.chains)

Matches(entry, asset_name) == upper(entry.symbol) = upper(asset_name)

\* an asset input that was resolved through the catalogs
CatalogResolved ==
    \/ pc = "returned"
    \/ pc = "exited" /\ ~AmountGiven /\ ~startswith(query.asset, <<"0", "x">>)

\* C18: the resolved asset is the ticker hash of the first case-insensitive
\* symbol match in the hub catalog, then the hinted chain's, then every
\* chain's; a hub symbol resolves to the hub's hash; no match gives no key
C18_SearchOrder ==
    CatalogResolved =>
        LET chain_data == load_chain_data(query.chain_data)
            order == SearchOrder(chain_data, result.origin_chain)
            hits == {k \in 1..Len(order) : Matches(order[k], query.asset)}
            hubHits == {k \in 1..Len(chain_data.hub) :
                          Matches(chain_data.hub[k], query.asset)}
        IN  /\ hits = {} => result.asset_hash = None
            /\ hits # {} =>
                 \E k \in hits : /\ \A m \in hits : k <= m
                                 /\ result.asset_hash = order[k].tickerHash
            /\ hubHits # {} =>
                 \E k \in hubHits : result.asset_hash = chain_data.hub[k].tickerHash

C18_Witness ==
    /\ CatalogResolved
    /\ query.chain_data = "chain_data"
    /\ Str(query.asset) = "weth"
    /\ result.origin_chain = "1"
    /\ FirstMatch(ChainAssets(load_chain_data(query.chain_data).chains, "1"),
                  query.asset) = "0xc"
    /\ result.asset_hash = "0xa"

\* C19: run_lookup and main use an asset input that starts with "0x" as the
\* asset key, verbatim, without consulting a catalog
C19_HashVerbatim ==
    (/\ pc = "returned" \/ (pc = "exited" /\ ~AmountParses)
     /\ startswith(query.asset, <<"0", "x">>))
        => result.asset_hash = Str(query.asset)

HasNonNumeric(v) ==
    \E r \in DOMAIN v : \E b \in DOMAIN v[r] :
       ~(IsNumber(v[r][b].p25) /\ IsNumber(v[r][b].p50) /\ IsNumber(v[r][b].p75))

\* C20: a run over a dataset with a non-numeric stored statistic ends with a
\* MalformedBin failure and returns no populated dataset
C20_MalformedBinReported ==
    (pc \in {"done", "failed"} /\ pass = 1 /\ HasNonNumeric(Input)) =>
        pc = "failed" /\ failure = "MalformedBin"

\* C22: in a route without an input "0-50000" bin, when the global statistics
\* hold "0-50000" values, every added bin has method baseline_scaling_global
\* and p50 = mean of the global "0-50000" p50 values x the bucket's multiplier
C22_GlobalBaselineForAll ==
    pc = "done" =>
        \A r \in DOMAIN Input :
           LET stats == collect_bin_statistics(Input)
           IN  (baseline_bin \notin DOMAIN Input[r] /\ baseline_bin \in DOMAIN stats)
               => \A b \in AddedBins(r) :
                     /\ Output[r][b].method = "baseline_scaling_global"
                     /\ \E up \in BOOLEAN :
                           Output[r][b].p50 =
                              round2(RMul(mean(stats[baseline_bin].p50),
                                          base_multiplier(b)), up)

\* the multipliers of the canonical buckets, in bucket order
Multipliers ==
    << Rat(1, 1), Rat(12, 10), Rat(15, 10), Rat(18, 10), Rat(2, 1),
       Rat(25, 10), Rat(3, 1), Rat(4, 1) >>

Rounds(x) == {round2(x, up) : up \in BOOLEAN}

\* C23: a bucket added to a route that stores "0-50000" has method
\* baseline_scaling, p50 = the stored "0-50000" p50 x the bucket's multiplier,
\* p25 = 0.7 x and p75 = 1.3 x that product, each rounded to 2 decimals, and
\* sample size 0; from p50 = 10, "500000-700000" gets 17.5, 25.0, 32.5
C23_BaselineScaling ==
    pc = "done" =>
        \A r \in DOMAIN Input :
           baseline_bin \in DOMAIN Input[r] =>
              /\ \A b \in AddedBins(r) :
                    LET x == RMul(Input[r][baseline_bin].p50,
                                  Multipliers[get_bin_index(b) + 1])
                        bin == Output[r][b]
                    IN  /\ bin.method = "baseline_scaling"
                        /\ bin.p50 \in Rounds(x)
                        /\ bin.p25 \in Rounds(RMul(Rat(7, 10), x))
                        /\ bin.p75 \in Rounds(RMul(Rat(13, 10), x))
                        /\ bin.sample_size = 0
              /\ (DOMAIN Input[r] = {baseline_bin}
                  /\ Input[r][baseline_bin].p50 = Rat(10, 1))
                 => /\ Output[r]["500000-700000"].p50 = Rat(25, 1)
                    /\ Output[r]["500000-700000"].p25 = Rat(175, 10)
                    /\ Output[r]["500000-700000"].p75 = Rat(325, 10)

C23_Witness ==
    /\ pc = "done"
    /\ \E r \in DOMAIN Input :
         /\ DOMAIN Input[r] = {baseline_bin}
         /\ Input[r][baseline_bin].p50 = Rat(10, 1)
         /\ Output[r]["500000-700000"].p50 = Rat(25, 1)
    /\ \E r \in DOMAIN Input :
         /\ DOMAIN Input[r] = {baseline_bin}
         /\ Input[r][baseline_bin].p50 = FractionalP50
         /\ Output[r]["50000-100000"].p50 = Rat(1202, 100)
         /\ Output[r]["50000-100000"].p25 = Rat(842, 100)
         /\ Output[r]["50000-100000"].p75 = Rat(1563, 100)

\* the bins of a route when its k-th missing bucket is filled: its own
\* bins and the buckets filled before
BinsBefore(r, k) ==
    LET missing == MissingBinsOf(Input[r])
        names == DOMAIN Input[r] \cup {missing[m] : m \in 1..(k - 1)}
    IN  [b \in names |-> Output[r][b]]

\* C24: during a run the statistics table is the one collected from the input
\* dataset, and the bins generated for a route are those computed from that
\* table and the route's own bins, whatever was generated for other routes
StatisticsKept == Filling => bin_stats' = bin_stats

RoutesFilledAlone ==
    pc = "done" =>
        /\ bin_stats = collect_bin_statistics(Input)
        /\ \A r \in DOMAIN Input :
              \A k \in 1..Len(MissingBinsOf(Input[r])) :
                 \E ties \in TieChoices :
                    Output[r][MissingBinsOf(Input[r])[k]] =
                       interpolate_bin_data(bin_stats,
                                            MissingBinsOf(Input[r])[k],
                                            DOMAIN Input[r], BinsBefore(r, k),
                                            ties)

C24_StatisticsBuiltOnce == [][StatisticsKept]_vars /\ []RoutesFilledAlone

C24_Witness ==
    /\ pc = "done"
    /\ baseline_bin \notin DOMAIN bin_stats
    /\ \E r1, r2 \in DOMAIN Input :
         /\ r1 # r2
         /\ missing_combinations[1].route = r1
         /\ Output[r1][baseline_bin].method = "weighted_interpolation"
         /\ Output[r2][baseline_bin].method = "default_fallback"

\* the routes of a dataset that store a bucket, and those that store it with
\* a given value of a metric
Storing(v, b) == {r \in DOMAIN v : b \in DOMAIN v[r]}
StoringValue(v, b, metric, x) == {r \in Storing(v, b) : v[r][b][metric] = x}
Occurrences(list, x) == Cardinality({k \in 1..Len(list) : list[k] = x})

\* the table has an entry for exactly the canonical buckets some route
\* stores, and each collection holds one value per route storing the bucket
ExactStatistics(stats, v) ==
    /\ DOMAIN stats = {b \in ExpectedBinSet : Storing(v, b) # {}}
    /\ \A b \in DOMAIN stats : \A metric \in {"p25", "p50", "p75"} :
          /\ Len(stats[b][metric]) = Cardinality(Storing(v, b))
          /\ \A r \in Storing(v, b) :
                Occurrences(stats[b][metric], v[r][b][metric])
                   = Cardinality(StoringValue(v, b, metric, v[r][b][metric]))

Collects ==
    pc = "populate" =>
        /\ Deref(heap', data') = Input
        /\ ExactStatistics(bin_stats', Input)

\* C25: collect_bin_statistics leaves the dataset as it is and returns, for
\* each canonical bucket some route stores, p25/p50/p75 collections with one
\* value per route storing it, generated or not; other bucket names and
\* buckets no route stores have no entry
C25_AggregateExact == [][Collects]_vars

C25_Witness ==
    /\ pc = "route"
    /\ \E r \in DOMAIN Input : "other" \in DOMAIN Input[r]
    /\ \E r \in DOMAIN Input :
         /\ "100000-300000" \in DOMAIN Input[r]
         /\ IsGenerated(Input[r]["100000-300000"])
    /\ "100000-300000" \in DOMAIN bin_stats
    /\ Len(bin_stats["100000-300000"].p50) = 1
    /\ "other" \notin DOMAIN bin_stats
    /\ "1000000+" \notin DOMAIN bin_stats

\* the canonical buckets of the called route that the statistics table holds
LocalBuckets ==
    SelectSeq(EXPECTED_BINS,
              LAMBDA b : b \in DOMAIN Input[query.route] /\ b \in DOMAIN bin_stats)

DistanceWeight(b, target) ==
    Rat(1, 1 + Abs(get_bin_index(b) - get_bin_index(target)))

\* the average of the global means of the local buckets, weighted by distance
WeightedGlobalMean(target, metric) ==
    LET bs == LocalBuckets
    IN  RDiv(RSum([k \in 1..Len(bs) |->
                     RMul(DistanceWeight(bs[k], target),
                          mean(bin_stats[bs[k]][metric]))]),
             RSum([k \in 1..Len(bs) |-> DistanceWeight(bs[k], target)]))

\* C26: a bin generated with method weighted_interpolation holds, for each of
\* p25/p50/p75, the average over the canonical buckets of the route's bins
\* of the bucket's global mean, weighted by 1/(1 + index distance to the
\* target), rounded to 2 decimals; without such a bucket the method is
\* another one
C26_WeightedInterpolation ==
    pc = "interpolated" =>
        /\ result.method = "weighted_interpolation" =>
              \A metric \in {"p25", "p50", "p75"} :
                 result[metric]
                    \in Rounds(WeightedGlobalMean(query.target_bin, metric))
        /\ LocalBuckets = <<>> => result.method # "weighted_interpolation"

C26_Witness ==
    /\ pc = "interpolated"
    /\ result.method = "weighted_interpolation"
    /\ query.target_bin = "400000-500000"
    /\ LocalBuckets = <<"300000-400000", "1000000+">>
    /\ \E b \in DOMAIN Input[query.route] :
          mean(bin_stats[b].p50) # Input[query.route][b].p50

RLeq(x, y) == x.num * y.den <= y.num * x.den

Ordered(bin) ==
    /\ RLeq(Rat(0, 1), bin.p25)
    /\ RLeq(bin.p25, bin.p50)
    /\ RLeq(bin.p50, bin.p75)

AllOrdered(v) == \A r \in DOMAIN v : \A b \in DOMAIN v[r] : Ordered(v[r][b])

\* C27: when every input bin has 0 <= p25 <= p50 <= p75, so has every bin of
\* the gap-filled output
C27_QuartilesOrdered ==
    (pc = "done" /\ AllOrdered(Input)) => AllOrdered(Output)

C27_Witness ==
    /\ pc = "done" /\ pass = 1
    /\ AllOrdered(Input)
    /\ \E r \in DOMAIN Input : \E b \in AddedBins(r) :
          Output[r][b].method = "weighted_interpolation"
    /\ \E r \in DOMAIN Input : \E b \in AddedBins(r) :
          Output[r][b].method = "default_fallback"
    /\ \E r \in DOMAIN Input : \E b \in AddedBins(r) :
          /\ Output[r][b].method = "baseline_scaling"
          /\ Output[r][b].p25 # Output[r][b].p50

\* C28: in the output of a run every bin added for a bucket other than
\* "0-50000" has method baseline_scaling, a bin added for "0-50000" has
\* method baseline_scaling_global, weighted_interpolation or default_fallback,
\* and no added bin has method cross_combination_average
C28_MethodByBucket ==
    pc = "done" =>
        \A r \in DOMAIN Input : \A b \in AddedBins(r) :
           /\ b # baseline_bin => Output[r][b].method = "baseline_scaling"
           /\ b = baseline_bin =>
                 Output[r][b].method \in {"baseline_scaling_global",
                                          "weighted_interpolation",
                                          "default_fallback"}
           /\ Output[r][b].method # "cross_combination_average"

C28_Witness ==
    /\ pc = "done"
    /\ \E r \in DOMAIN Input :
         /\ baseline_bin \in AddedBins(r)
         /\ "50000-100000" \in AddedBins(r)
         /\ DOMAIN Input[r] # {}
         /\ Output[r][baseline_bin].method = "weighted_interpolation"
         /\ "50000-100000" \in DOMAIN bin_stats
         /\ Output[r]["50000-100000"].method = "baseline_scaling"

\* the symbol of a token amount text as it was typed
TypedSymbol ==
    LET t == strip(query.amount)
    IN  SubSeq(t, Len(t) - Len(Parsed.asset_symbol) + 1, Len(t))

\* C29: a token amount whose symbol, as typed, is a key of the price table
\* (cbBTC and xPufETH included) is converted to amount x that key's price
C29_TablePriceUsed ==
    (pc = "exited" /\ result.token_amount_info # NoTokenAmountInfo) =>
        (Str(TypedSymbol) \in DOMAIN get_token_prices =>
            /\ result.token_amount_info.usd_value =
                  RMul(result.token_amount_info.amount,
                       get_token_prices[Str(TypedSymbol)])
            /\ ~result.warning)

\* C30: without an amount range, a lookup of a stored route returns the
\* statistics of the first bucket stored for it, fails only when the route
\* stores no bucket, and never reports an absent bucket
C30_FirstStoredBucket ==
    (pc = "exited" /\ RouteStored /\ ~BucketGiven) =>
        LET stored == DataFiles[query.file][QueriedRoute]
        IN  /\ stored.keys = << >> =>
                  result.returned = NotFound("no_amount_ranges")
            /\ stored.keys # << >> =>
                  /\ result.returned.found
                  /\ result.returned.amount_range = stored.keys[1]
                  /\ \A k \in {"p25", "p50", "p75", "sample_size"} :
                        result.returned[k] = stored.bins[stored.keys[1]][k]

C30_Witness ==
    /\ pc = "exited" /\ RouteStored /\ ~BucketGiven
    /\ DataFiles[query.file][QueriedRoute].keys[1] = "1000000+"
    /\ "0-50000" \in DOMAIN DataFiles[query.file][QueriedRoute].bins
    /\ result.returned.found
    /\ result.returned.amount_range = "1000000+"
    /\ result.returned.p50 = Rat(40, 1)

\* ---- the batch test runner
Percentiles == {"p25", "p50", "p75"}
TestsRan == pc = "exited" /\ result.ran
LookupOf(test_case) ==
    run_lookup(test_case.from_chain_name, test_case.to_chain_name,
               test_case.from_asset_symbol,
               Cents(float(without_commas(test_case.amount))),
               query.json, query.chain_data).returned
ExpectedGiven(test_case) ==
    \A m \in Percentiles : float(test_case[m]) # ValueError
ActualMissing(test_case, m) == LookupOf(test_case)[m].den <= 0
Differs(test_case, m) ==
    ~RLess(RAbs(RSub(LookupOf(test_case)[m], float(test_case[m]))), Rat(1, 100))
FailsComparison(test_case) ==
    /\ float(without_commas(test_case.amount)) # ValueError
    /\ \/ ~LookupOf(test_case).found
       \/ /\ ExpectedGiven(test_case)
          /\ \E m \in Percentiles :
                ActualMissing(test_case, m) \/ Differs(test_case, m)

\* C21: when the test runner has run its test cases and at least one of them
\* fails its comparison (the lookup fails, or an actual p25/p50/p75 is
\* missing or differs from the expected value by 0.01 or more), the exit
\* status is not zero
C21_FailedComparisonExitsNonZero ==
    TestsRan =>
        ((\E k \in 1..Len(query.csv) : FailsComparison(query.csv[k]))
            => result.exit # 0)

====
